---- MODULE Spec2Model ----
(***************************************************************************)
(* Model of ConversationManager (conversation_manager.py): the in-memory   *)
(* store of conversations, its handlers, and the interleavings of its      *)
(* handlers when several sessions share the one cached manager (app.py).   *)
(***************************************************************************)
EXTENDS Integers, Sequences, FiniteSets, TLC

VARIABLES conversations, now, calls, ret, pc, local, completed,
          faqs, faq_file, turn

vars == <<conversations, now, calls, ret, pc, local, completed,
          faqs, faq_file, turn>>

(***************************************************************************)
(* Bounds of the model.                                                    *)
(***************************************************************************)
\* Number of calls explored; call n draws uuid n.
MaxCalls == 4

\* Number of calls the concurrent sessions issue between them.
MaxThreadCalls == 3

(***************************************************************************)
(* Python values.                                                          *)
(***************************************************************************)
None == [kind |-> "None"]

Missing == [kind |-> "missing"]

DateTime(t) == [kind |-> "datetime", sec |-> t]

Str(s) == [kind |-> "str", text |-> s]

IntV(n) == [kind |-> "int", v |-> n]

EmptyDict == [k \in {} |-> None]

\* A merge that replaces the mapping by the updates.
DictReplace(d, u) == u

\* dict.update(): every key of u takes u's value, the other keys keep theirs.
DictUpdate(d, u) ==
    [k \in (DOMAIN d) \cup (DOMAIN u) |-> IF k \in DOMAIN u THEN u[k] ELSE d[k]]

\* timedelta(hours=24), in seconds.
max_conversation_age == 86400

\* A rendering that stops at the minutes.
IsoFormatMinutes(t) ==
    <<t \div 86400, (t % 86400) \div 3600, (t % 3600) \div 60, 0>>

\* datetime.isoformat(): the instant split into its date and time-of-day fields.
IsoFormat(t) ==
    <<t \div 86400, (t % 86400) \div 3600, (t % 3600) \div 60, t % 60>>

\* datetime.fromisoformat(): the instant a rendered timestamp denotes.
FromIsoFormat(s) == s[1] * 86400 + s[2] * 3600 + s[3] * 60 + s[4]

(***************************************************************************)
(* Inputs the callers pass.                                                *)
(***************************************************************************)
\* Clock readings sampled: the start, 24h later, and one second after that.
Instants == {0, max_conversation_age, max_conversation_age + 1}

\* An id uuid4 never issued (uuids are drawn from 1 upwards).
UnknownId == 0

MessageInputs ==
    { [role |-> "user", content |-> "Where is my order", metadata |-> None],
      [role |-> "assistant", content |-> "It shipped today",
       metadata |-> [kind |-> "dict", items |-> [k \in {"intent"} |-> Str("order_status")]]] }

DictInputs ==
    { [k \in {"name"} |-> Str("Ann")],
      [k \in {"name", "plan"} |-> IF k = "name" THEN Str("Bob") ELSE Str("pro")] }

ReasonInputs == {None, Str("billing dispute")}

ScoreInputs == {None, IntV(5)}

LimitInputs == {None} \cup {IntV(n) : n \in -1..3}

(***************************************************************************)
(* What a handler hands back: the store it leaves, and its return value or *)
(* the exception it raises.                                                *)
(***************************************************************************)
Returned(store, v) == [store |-> store, val |-> v, raised |-> "none"]

Raised(store, e) == [store |-> store, val |-> None, raised |-> e]

\* Python truthiness of the values passed as optional arguments.
Truthy(v) ==
    CASE v.kind = "None" -> FALSE
      [] v.kind = "int"  -> v.v # 0
      [] v.kind = "str"  -> v.text # ""
      [] v.kind = "dict" -> DOMAIN v.items # {}
      [] OTHER -> TRUE

\* list[start:] for a start of either sign.
SliceFrom(list, start) ==
    LET n == Len(list)
        from == IF start < 0 THEN (IF n + start < 0 THEN 0 ELSE n + start)
                ELSE (IF start > n THEN n ELSE start)
    IN  SubSeq(list, from + 1, n)

\* self.conversations[key] = value / del self.conversations[key]
SetItem(store, key, value) ==
    [k \in (DOMAIN store) \cup {key} |-> IF k = key THEN value ELSE store[k]]

DelItems(store, keys) == [k \in (DOMAIN store) \ keys |-> store[k]]

(***************************************************************************)
(* The handlers of ConversationManager.  t is the reading of               *)
(* datetime.now() during the call, uuid the value uuid4() hands out.       *)
(***************************************************************************)
NewConversation(id, t) ==
    [ id |-> id, created_at |-> DateTime(t), last_activity |-> DateTime(t),
      messages |-> <<>>, context |-> EmptyDict, user_info |-> EmptyDict,
      satisfaction_score |-> None, escalated |-> FALSE, resolved |-> FALSE,
      escalation_reason |-> Missing, escalation_time |-> Missing,
      resolved_at |-> Missing ]

create_conversation(store, t, uuid) ==
    Returned(SetItem(store, uuid, NewConversation(uuid, t)), uuid)

NewMessage(uuid, role, content, t, metadata) ==
    [ role |-> role, content |-> content,
      metadata |-> IF Truthy(metadata) THEN metadata.items ELSE EmptyDict,
      id |-> uuid, timestamp |-> DateTime(t) ]

add_message(store, t, uuid, id, role, content, metadata) ==
    IF id \notin DOMAIN store
    THEN Returned(store, FALSE)
    ELSE LET message == NewMessage(uuid, role, content, t, metadata)
             conv == store[id]
         IN  Returned(
                 SetItem(store, id,
                     [conv EXCEPT !.messages = Append(@, message),
                                  !.last_activity = DateTime(t)]),
                 TRUE)

get_messages(store, id, limit) ==
    IF id \notin DOMAIN store
    THEN Returned(store, <<>>)
    ELSE LET messages == store[id].messages
         IN  IF Truthy(limit)
             THEN Returned(store, SliceFrom(messages, -limit.v))
             ELSE Returned(store, messages)

update_context(store, t, id, context_updates) ==
    IF id \notin DOMAIN store
    THEN Returned(store, FALSE)
    ELSE Returned(
             SetItem(store, id,
                 [store[id] EXCEPT !.context = DictUpdate(@, context_updates),
                                   !.last_activity = DateTime(t)]),
             TRUE)

set_user_info(store, t, id, user_info) ==
    IF id \notin DOMAIN store
    THEN Returned(store, FALSE)
    ELSE Returned(
             SetItem(store, id,
                 [store[id] EXCEPT !.user_info = DictUpdate(@, user_info)]),
             TRUE)

EscalationText(reason) ==
    "Conversation escalated to human agent. Reason: "
        \o (IF Truthy(reason) THEN reason.text ELSE "User request")

EscalationMetadata(reason) ==
    [kind |-> "dict",
     items |-> [k \in {"type", "reason"} |->
                   IF k = "type" THEN Str("escalation") ELSE reason]]

\* An escalation that leaves an already escalated conversation alone.
escalate_once(store, t, uuid, id, reason) ==
    IF id \notin DOMAIN store
    THEN Returned(store, FALSE)
    ELSE IF store[id].escalated THEN Returned(store, TRUE)
    ELSE LET marked == SetItem(store, id,
                           [store[id] EXCEPT !.escalated = TRUE,
                                             !.escalation_reason = reason,
                                             !.escalation_time = DateTime(t)])
         IN  Returned(
                 add_message(marked, t, uuid, id, "system",
                             EscalationText(reason), EscalationMetadata(reason)).store,
                 TRUE)

escalate_conversation(store, t, uuid, id, reason) ==
    IF id \notin DOMAIN store
    THEN Returned(store, FALSE)
    ELSE LET marked == SetItem(store, id,
                           [store[id] EXCEPT !.escalated = TRUE,
                                             !.escalation_reason = reason,
                                             !.escalation_time = DateTime(t)])
         IN  Returned(
                 add_message(marked, t, uuid, id, "system",
                             EscalationText(reason), EscalationMetadata(reason)).store,
                 TRUE)

\* A resolve without the existence check: the first subscript raises.
resolve_unchecked(store, t, id, satisfaction_score) ==
    IF id \notin DOMAIN store
    THEN Raised(store, "KeyError")
    ELSE LET conv == [store[id] EXCEPT !.resolved = TRUE, !.resolved_at = DateTime(t)]
         IN  Returned(
                 SetItem(store, id,
                     IF satisfaction_score # None
                     THEN [conv EXCEPT !.satisfaction_score = satisfaction_score]
                     ELSE conv),
                 TRUE)

resolve_conversation(store, t, id, satisfaction_score) ==
    IF id \notin DOMAIN store
    THEN Returned(store, FALSE)
    ELSE LET conv == [store[id] EXCEPT !.resolved = TRUE, !.resolved_at = DateTime(t)]
         IN  Returned(
                 SetItem(store, id,
                     IF satisfaction_score # None
                     THEN [conv EXCEPT !.satisfaction_score = satisfaction_score]
                     ELSE conv),
                 TRUE)

\* A sweep that already removes at exactly the maximum age.
ExpiredAtMaxAge(conv, t) == t - conv.last_activity.sec >= max_conversation_age

Expired(conv, t) == t - conv.last_activity.sec > max_conversation_age

cleanup_old_conversations(store, t) ==
    LET to_remove == {id \in DOMAIN store : Expired(store[id], t)}
    IN  Returned(DelItems(store, to_remove), Cardinality(to_remove))

\* value.isoformat(): a datetime renders; a str has no such method.
CanIsoFormat(v) == v.kind = "datetime"

Rendered(v) == Str(IsoFormat(v.sec))

\* The loop over conversation["messages"]: each message dict is the stored
\* one, so its timestamp is overwritten in place; the loop stops where
\* isoformat() raises.
RECURSIVE ExportMessages(_, _)
ExportMessages(messages, i) ==
    IF i > Len(messages) THEN [raised |-> "none", messages |-> messages]
    ELSE IF ~CanIsoFormat(messages[i].timestamp)
         THEN [raised |-> "AttributeError", messages |-> messages]
         ELSE ExportMessages(
                  [messages EXCEPT ![i].timestamp = Rendered(@)], i + 1)

export_conversation(store, id) ==
    IF id \notin DOMAIN store
    THEN Returned(store, None)
    ELSE LET stored == store[id]
             loop == ExportMessages(stored.messages, 1)
             after == SetItem(store, id, [stored EXCEPT !.messages = loop.messages])
             conversation ==
                 [stored EXCEPT
                     !.created_at = Rendered(@),
                     !.last_activity = Rendered(@),
                     !.escalation_time = IF @ = Missing THEN @ ELSE Rendered(@),
                     !.resolved_at = IF @ = Missing THEN @ ELSE Rendered(@),
                     !.messages = loop.messages]
         IN  IF loop.raised # "none" THEN Raised(after, loop.raised)
             ELSE Returned(after, conversation)

\* message_counts: how many messages each role that occurs has.
MessageCounts(messages) ==
    [role \in {messages[i].role : i \in DOMAIN messages} |->
        Cardinality({i \in DOMAIN messages : messages[i].role = role})]

InList(x, list) == \E i \in DOMAIN list : list[i] = x

\* intents_discussed: the intents of the assistant messages, each once, as first seen.
RECURSIVE Intents(_, _, _)
Intents(messages, i, intents) ==
    IF i > Len(messages) THEN intents
    ELSE LET message == messages[i]
             has == message.role = "assistant" /\ "intent" \in DOMAIN message.metadata
         IN  IF has /\ Truthy(message.metadata["intent"])
                    /\ ~InList(message.metadata["intent"], intents)
             THEN Intents(messages, i + 1, Append(intents, message.metadata["intent"]))
             ELSE Intents(messages, i + 1, intents)

\* end_time - start_time is defined between two datetimes only.
CanSubtract(a, b) == a.kind = "datetime" /\ b.kind = "datetime"

get_conversation_summary(store, id) ==
    IF id \notin DOMAIN store
    THEN Returned(store, None)
    ELSE LET conversation == store[id]
             messages == conversation.messages
             start_time == messages[1].timestamp
             end_time == messages[Len(messages)].timestamp
         IN  IF messages # <<>> /\ ~CanSubtract(end_time, start_time)
             THEN Raised(store, "TypeError")
             ELSE Returned(store,
                    [ created_at |-> conversation.created_at,
                      last_activity |-> conversation.last_activity,
                      user_info |-> conversation.user_info,
                      satisfaction_score |-> conversation.satisfaction_score,
                      escalated |-> conversation.escalated,
                      resolved |-> conversation.resolved,
                      conversation_id |-> id,
                      duration_seconds |->
                          IF messages = <<>> THEN None
                          ELSE IntV(end_time.sec - start_time.sec),
                      message_count |-> Len(messages),
                      message_counts |-> MessageCounts(messages),
                      intents_discussed |-> Intents(messages, 1, <<>>) ])

\* The id the dict iterator yields after pos: ids are stored in the order
\* they were drawn, and a deletion keeps the order of the others.
NextId(store, pos) ==
    LET rest == {id \in DOMAIN store : id > pos}
    IN  CHOOSE id \in rest : \A other \in rest : id <= other

\* The test of lines 171-172.
Active(conversation, t) ==
    /\ ~conversation.resolved
    /\ t - conversation.last_activity.sec < max_conversation_age

\* The loop of get_active_conversations from the conversation after pos on;
\* an exception of get_conversation_summary leaves the loop and the call.
RECURSIVE ActiveLoop(_, _, _, _)
ActiveLoop(store, t, pos, active) ==
    IF {id \in DOMAIN store : id > pos} = {}
    THEN Returned(store, active)
    ELSE LET conversation == store[NextId(store, pos)]
             summary == get_conversation_summary(store, conversation.id)
         IN  IF ~Active(conversation, t)
             THEN ActiveLoop(store, t, conversation.id, active)
             ELSE IF summary.raised # "none"
                  THEN Raised(store, summary.raised)
                  ELSE ActiveLoop(store, t, conversation.id,
                                  Append(active, summary.val))

get_active_conversations(store, t) == ActiveLoop(store, t, UnknownId, <<>>)

\* str.lower() on the letters the messages and queries are written in.
LowerChar(c) ==
    CASE c = "A" -> "a" [] c = "B" -> "b" [] c = "C" -> "c" [] c = "D" -> "d"
      [] c = "E" -> "e" [] c = "F" -> "f" [] c = "G" -> "g" [] c = "H" -> "h"
      [] c = "I" -> "i" [] c = "J" -> "j" [] c = "K" -> "k" [] c = "L" -> "l"
      [] c = "M" -> "m" [] c = "N" -> "n" [] c = "O" -> "o" [] c = "P" -> "p"
      [] c = "Q" -> "q" [] c = "R" -> "r" [] c = "S" -> "s" [] c = "T" -> "t"
      [] c = "U" -> "u" [] c = "V" -> "v" [] c = "W" -> "w" [] c = "X" -> "x"
      [] c = "Y" -> "y" [] c = "Z" -> "z" [] OTHER -> c

RECURSIVE Lower(_)
Lower(text) ==
    IF text = "" THEN ""
    ELSE LowerChar(SubSeq(text, 1, 1)) \o Lower(SubSeq(text, 2, Len(text)))

\* sub in text
Contains(sub, text) ==
    \E i \in 0..(Len(text) - Len(sub)) : SubSeq(text, i + 1, i + Len(sub)) = sub

\* The inner loop of lines 206-210.
Found(conversation, query_lower) ==
    \E i \in DOMAIN conversation.messages :
        Contains(query_lower, Lower(conversation.messages[i].content))

\* The loop of search_conversations from the conversation after pos on.
RECURSIVE SearchLoop(_, _, _, _, _)
SearchLoop(store, query_lower, limit, pos, results) ==
    IF {id \in DOMAIN store : id > pos} = {}
    THEN Returned(store, results)
    ELSE LET conversation == store[NextId(store, pos)]
             summary == get_conversation_summary(store, conversation.id)
         IN  IF ~Found(conversation, query_lower)
             THEN SearchLoop(store, query_lower, limit, conversation.id, results)
             ELSE IF summary.raised # "none"
                  THEN Raised(store, summary.raised)
                  ELSE IF Len(results) + 1 >= limit
                       THEN Returned(store, Append(results, summary.val))
                       ELSE SearchLoop(store, query_lower, limit, conversation.id,
                                       Append(results, summary.val))

search_conversations(store, query, limit) ==
    SearchLoop(store, Lower(query), limit, UnknownId, <<>>)

(***************************************************************************)
(* One session at a time: every call runs to completion before the next.   *)
(* ret records the last call: its name, its id argument, its other          *)
(* arguments, and what it returned or raised.                              *)
(***************************************************************************)
\* The catalog FAQHandler loads when it is built (data/faqs.json): entries
\* in the order of the file, each with its paraphrases, answer and category.
FaqEntry(id, questions, answer, category) ==
    [id |-> id, questions |-> questions, answer |-> answer, category |-> category]

LoadedFaqs ==
    << FaqEntry("password_reset",
                <<"forgot password", "reset password", "password reset">>,
                "To reset your password, click 'Forgot Password?' on the login page.",
                "account"),
       FaqEntry("business_hours",
                <<"when are you open">>,
                "We are open Monday through Friday from 9:00 AM to 6:00 PM EST.",
                "general") >>

\* No turn of the chatbot is in progress.
NoTurn == [pc |-> "idle"]

NoCall == [val |-> None, raised |-> "none", id |-> UnknownId, op |-> "none", arg |-> None]

NoThreads == [t \in {} |-> None]

Init ==
    /\ conversations = [id \in {} |-> None]
    /\ now = 0
    /\ calls = 0
    /\ ret = NoCall
    /\ pc = NoThreads
    /\ local = NoThreads
    /\ completed = <<>>
    /\ faqs = LoadedFaqs
    /\ faq_file = LoadedFaqs
    /\ turn = NoTurn

\* The ids a caller may hold: the stored ones and one that is not stored.
IdInputs == (DOMAIN conversations) \cup {UnknownId}

Finish(op, id, arg, r) ==
    /\ conversations' = r.store
    /\ ret' = [val |-> r.val, raised |-> r.raised, id |-> id, op |-> op, arg |-> arg]
    /\ calls' = calls + 1
    /\ UNCHANGED <<now, pc, local, completed, faqs, faq_file, turn>>

Tick ==
    /\ \E t \in Instants : t > now /\ now' = t
    /\ UNCHANGED <<conversations, calls, ret, pc, local, completed, faqs, faq_file, turn>>

CreateConversation ==
    /\ calls < MaxCalls
    /\ Finish("create_conversation", calls + 1, None,
              create_conversation(conversations, now, calls + 1))

AddMessage ==
    /\ calls < MaxCalls
    /\ \E id \in IdInputs, m \in MessageInputs :
          Finish("add_message", id, m,
                 add_message(conversations, now, calls + 1, id,
                             m.role, m.content, m.metadata))

GetMessages ==
    /\ calls < MaxCalls
    /\ \E id \in IdInputs, limit \in LimitInputs :
          Finish("get_messages", id, limit,
                 get_messages(conversations, id, limit))

UpdateContext ==
    /\ calls < MaxCalls
    /\ \E id \in IdInputs, u \in DictInputs :
          Finish("update_context", id, u,
                 update_context(conversations, now, id, u))

SetUserInfo ==
    /\ calls < MaxCalls
    /\ \E id \in IdInputs, u \in DictInputs :
          Finish("set_user_info", id, u,
                 set_user_info(conversations, now, id, u))

EscalateConversation ==
    /\ calls < MaxCalls
    /\ \E id \in IdInputs, reason \in ReasonInputs :
          Finish("escalate_conversation", id, reason,
                 escalate_conversation(conversations, now, calls + 1, id, reason))

ResolveConversation ==
    /\ calls < MaxCalls
    /\ \E id \in IdInputs, score \in ScoreInputs :
          Finish("resolve_conversation", id, score,
                 resolve_conversation(conversations, now, id, score))

CleanupOldConversations ==
    /\ calls < MaxCalls
    /\ Finish("cleanup_old_conversations", UnknownId, None,
              cleanup_old_conversations(conversations, now))

ExportConversation ==
    /\ calls < MaxCalls
    /\ \E id \in IdInputs :
          Finish("export_conversation", id, None,
                 export_conversation(conversations, id))

GetConversationSummary ==
    /\ calls < MaxCalls
    /\ \E id \in IdInputs :
          Finish("get_conversation_summary", id, None,
                 get_conversation_summary(conversations, id))

Next ==
    \/ Tick
    \/ CreateConversation
    \/ AddMessage
    \/ GetMessages
    \/ UpdateContext
    \/ SetUserInfo
    \/ EscalateConversation
    \/ ResolveConversation
    \/ CleanupOldConversations
    \/ ExportConversation
    \/ GetConversationSummary

Spec == Init /\ [][Next]_vars

(***************************************************************************)
(* The listings: one session that fills the store, resolves and exports,   *)
(* and asks for the active conversations or searches the transcripts.      *)
(***************************************************************************)
QueryInputs == {"ORDER", "shipped", "refund"}

SearchLimitInputs == 0..2

GetActiveConversations ==
    /\ calls < MaxCalls
    /\ Finish("get_active_conversations", UnknownId, None,
              get_active_conversations(conversations, now))

SearchConversations ==
    /\ calls < MaxCalls
    /\ \E query \in QueryInputs, limit \in SearchLimitInputs :
          Finish("search_conversations", UnknownId,
                 [limit |-> limit, query |-> query],
                 search_conversations(conversations, query, limit))

NextQuery ==
    \/ Tick
    \/ CreateConversation
    \/ AddMessage
    \/ ResolveConversation
    \/ ExportConversation
    \/ GetActiveConversations
    \/ SearchConversations

SpecQuery == Init /\ [][NextQuery]_vars

(***************************************************************************)
(* Several sessions at once.  app.py caches one ConversationManager for    *)
(* the process and every session runs in a thread of its own; the manager  *)
(* holds no lock, so the threads interleave between the statements of its  *)
(* handlers.  A step is one statement (a subscript lookup together with    *)
(* the store or the C-level list.append / dict.update it feeds); the       *)
(* assignment of last_activity is split into its read of datetime.now()    *)
(* and its store.  pc[t] names the line thread t is about to run, local[t] *)
(* its frame, and completed lists the calls in the order they returned.    *)
(***************************************************************************)
Threads == {"t1", "t2"}

Idle == "idle"

NoFrame ==
    [ id |-> UnknownId, uuid |-> 0, message |-> None, to_remove |-> <<>>,
      pos |-> 0, results |-> <<>>, op |-> "none", arg |-> None,
      t_read |-> 0, nested |-> FALSE, passed |-> FALSE, wrote |-> -1,
      size0 |-> 0, conv_id |-> UnknownId ]

InitConc ==
    /\ conversations = [id \in {} |-> None]
    /\ now = 0
    /\ calls = 0
    /\ ret = NoCall
    /\ pc = [t \in Threads |-> Idle]
    /\ local = [t \in Threads |-> NoFrame]
    /\ completed = <<>>
    /\ faqs = LoadedFaqs
    /\ faq_file = LoadedFaqs
    /\ turn = NoTurn

TickConc ==
    /\ \E t \in Instants : t > now /\ now' = t
    /\ UNCHANGED <<conversations, calls, ret, pc, local, completed, faqs, faq_file, turn>>

\* Thread t enters a handler: the frame of the call, with the uuid it will draw.
Frame(op, id, arg) ==
    [NoFrame EXCEPT !.op = op, !.id = id, !.arg = arg, !.uuid = calls + 1]

CanCall(t) == pc[t] = Idle /\ calls < MaxThreadCalls

\* Thread t goes on to line `label` with frame f.
Goto(t, label, f) ==
    /\ pc' = [pc EXCEPT ![t] = label]
    /\ local' = [local EXCEPT ![t] = f]

\* The call of thread t with frame f returns val, or raises.
Done(t, f, val, raised) ==
    /\ pc' = [pc EXCEPT ![t] = Idle]
    /\ local' = [local EXCEPT ![t] = NoFrame]
    /\ completed' = Append(completed,
          [ val |-> val, raised |-> raised, id |-> f.id, uuid |-> f.uuid, op |-> f.op,
            passed |-> f.passed, wrote |-> f.wrote, thread |-> t ])

Return(t, val) == Done(t, local[t], val, "none")

Raise(t, e) == Done(t, local[t], None, e)

\* self.conversations[id] for the statement thread t is at: present or KeyError.
Stored(t) == local[t].id \in DOMAIN conversations

\* The existence check a handler opens with, run as the call is entered.
Enter(t, op, id, arg, label) ==
    /\ CanCall(t)
    /\ calls' = calls + 1
    /\ IF id \in DOMAIN conversations
       THEN /\ Goto(t, label, [Frame(op, id, arg) EXCEPT !.passed = TRUE])
            /\ UNCHANGED completed
       ELSE Done(t, Frame(op, id, arg), FALSE, "none")
    /\ UNCHANGED <<conversations, now, ret, faqs, faq_file, turn>>

\* A statement of the form self.conversations[id][...] = ... or
\* self.conversations[id][...].method(...): KeyError when the id is gone.
Statement(t, at, conv, label, f) ==
    /\ pc[t] = at
    /\ IF Stored(t)
       THEN /\ conversations' = SetItem(conversations, local[t].id, conv)
            /\ Goto(t, label, f)
            /\ UNCHANGED completed
       ELSE /\ Raise(t, "KeyError")
            /\ UNCHANGED conversations
    /\ UNCHANGED <<now, calls, ret, faqs, faq_file, turn>>

\* A statement that touches the frame only.
FrameStep(t, at, label, f) ==
    /\ pc[t] = at
    /\ Goto(t, label, f)
    /\ UNCHANGED <<conversations, now, calls, ret, completed, faqs, faq_file, turn>>

ReturnStep(t, at, val) ==
    /\ pc[t] = at
    /\ Return(t, val)
    /\ UNCHANGED <<conversations, now, calls, ret, faqs, faq_file, turn>>

Conv(t) == conversations[local[t].id]

\* create_conversation: the record is built first and stored by one assignment.
CreateCall(t) ==
    /\ CanCall(t)
    /\ calls' = calls + 1
    /\ conversations' = create_conversation(conversations, now, calls + 1).store
    /\ Done(t, Frame("create_conversation", calls + 1, None), calls + 1, "none")
    /\ UNCHANGED <<now, ret, faqs, faq_file, turn>>

\* add_message, lines 29-43.
AddCall(t) ==
    \E id \in IdInputs, m \in MessageInputs :
        m.role = "user" /\ Enter(t, "add_message", id, m, "add_32")

\* Line 29 when escalate_conversation calls add_message: False goes back unread.
Add29(t) ==
    /\ pc[t] = "add_29"
    /\ Goto(t, IF Stored(t) THEN "add_32" ELSE "esc_93", local[t])
    /\ UNCHANGED <<conversations, now, calls, ret, completed, faqs, faq_file, turn>>

Add32(t) ==
    LET f == local[t]
    IN  FrameStep(t, "add_32", "add_40",
            [f EXCEPT !.message =
                NewMessage(f.uuid, f.arg.role, f.arg.content, now, f.arg.metadata)])

Add40(t) ==
    Statement(t, "add_40",
        [Conv(t) EXCEPT !.messages = Append(@, local[t].message)],
        "add_41_now", local[t])

Add41Now(t) ==
    FrameStep(t, "add_41_now", "add_41_store", [local[t] EXCEPT !.t_read = now])

Add41Store(t) ==
    Statement(t, "add_41_store",
        [Conv(t) EXCEPT !.last_activity = DateTime(local[t].t_read)],
        "add_43", [local[t] EXCEPT !.wrote = local[t].t_read])

Add43(t) ==
    /\ pc[t] = "add_43"
    /\ IF local[t].nested
       THEN Goto(t, "esc_93", local[t]) /\ UNCHANGED completed
       ELSE Return(t, TRUE)
    /\ UNCHANGED <<conversations, now, calls, ret, faqs, faq_file, turn>>

\* update_context, lines 61-66.
UpdateCall(t) ==
    \E id \in IdInputs, u \in DictInputs :
        DOMAIN u = {"name"} /\ Enter(t, "update_context", id, u, "upd_64")

Upd64(t) ==
    Statement(t, "upd_64",
        [Conv(t) EXCEPT !.context = DictUpdate(@, local[t].arg)],
        "upd_65_now", local[t])

Upd65Now(t) ==
    FrameStep(t, "upd_65_now", "upd_65_store", [local[t] EXCEPT !.t_read = now])

Upd65Store(t) ==
    Statement(t, "upd_65_store",
        [Conv(t) EXCEPT !.last_activity = DateTime(local[t].t_read)],
        "upd_66", [local[t] EXCEPT !.wrote = local[t].t_read])

Upd66(t) == ReturnStep(t, "upd_66", TRUE)

\* set_user_info, lines 70-74.
SetUserInfoCall(t) ==
    \E id \in IdInputs, u \in DictInputs :
        DOMAIN u = {"name"} /\ Enter(t, "set_user_info", id, u, "set_73")

Set73(t) ==
    Statement(t, "set_73",
        [Conv(t) EXCEPT !.user_info = DictUpdate(@, local[t].arg)],
        "set_74", local[t])

Set74(t) == ReturnStep(t, "set_74", TRUE)

\* escalate_conversation, lines 78-93.
EscalateCall(t) ==
    \E id \in IdInputs, reason \in ReasonInputs :
        reason # None /\ Enter(t, "escalate_conversation", id, reason, "esc_81")

Esc81(t) ==
    Statement(t, "esc_81", [Conv(t) EXCEPT !.escalated = TRUE], "esc_82", local[t])

Esc82(t) ==
    Statement(t, "esc_82", [Conv(t) EXCEPT !.escalation_reason = local[t].arg],
              "esc_83", local[t])

Esc83(t) ==
    Statement(t, "esc_83", [Conv(t) EXCEPT !.escalation_time = DateTime(now)],
              "esc_86", local[t])

Esc86(t) ==
    LET f == local[t]
    IN  FrameStep(t, "esc_86", "add_29",
            [f EXCEPT !.nested = TRUE,
                      !.arg = [role |-> "system", content |-> EscalationText(f.arg),
                               metadata |-> EscalationMetadata(f.arg)]])

Esc93(t) == ReturnStep(t, "esc_93", TRUE)

\* resolve_conversation, lines 97-106.
ResolveCall(t) ==
    \E id \in IdInputs, score \in ScoreInputs :
        Enter(t, "resolve_conversation", id, score, "res_100")

Res100(t) ==
    Statement(t, "res_100", [Conv(t) EXCEPT !.resolved = TRUE], "res_101", local[t])

Res101(t) ==
    Statement(t, "res_101", [Conv(t) EXCEPT !.resolved_at = DateTime(now)],
              IF local[t].arg # None THEN "res_104" ELSE "res_106", local[t])

Res104(t) ==
    Statement(t, "res_104", [Conv(t) EXCEPT !.satisfaction_score = local[t].arg],
              "res_106", local[t])

Res106(t) == ReturnStep(t, "res_106", TRUE)

\* cleanup_old_conversations, lines 153-163.  The for loop walks a dict
\* iterator: ids are stored in the order they were drawn, pos is the last
\* id the iterator yielded and size0 the size of the dict when the loop
\* began; next() raises RuntimeError once the size differs.  In the second
\* loop pos counts the ids of to_remove already deleted.
CleanupCall(t) ==
    /\ CanCall(t)
    /\ calls' = calls + 1
    /\ Goto(t, "cln_156",
            [Frame("cleanup_old_conversations", UnknownId, None) EXCEPT
                !.t_read = now, !.size0 = Cardinality(DOMAIN conversations)])
    /\ UNCHANGED <<conversations, now, ret, completed, faqs, faq_file, turn>>

Cln156(t) ==
    /\ pc[t] = "cln_156"
    /\ LET f == local[t]
           rest == {id \in DOMAIN conversations : id > f.pos}
           conv_id == CHOOSE id \in rest : \A other \in rest : id <= other
       IN  IF Cardinality(DOMAIN conversations) # f.size0
           THEN Raise(t, "RuntimeError")
           ELSE /\ UNCHANGED completed
                /\ IF rest = {}
                   THEN Goto(t, "cln_160", [f EXCEPT !.pos = 0])
                   ELSE Goto(t, "cln_156",
                            [f EXCEPT !.pos = conv_id,
                                      !.to_remove =
                                          IF Expired(conversations[conv_id], f.t_read)
                                          THEN Append(@, conv_id) ELSE @])
    /\ UNCHANGED <<conversations, now, calls, ret, faqs, faq_file, turn>>

Cln160(t) ==
    /\ pc[t] = "cln_160"
    /\ LET f == local[t]
       IN  IF f.pos >= Len(f.to_remove)
           THEN Goto(t, "cln_163", f) /\ UNCHANGED <<conversations, completed>>
           ELSE IF f.to_remove[f.pos + 1] \in DOMAIN conversations
                THEN /\ conversations' = DelItems(conversations, {f.to_remove[f.pos + 1]})
                     /\ Goto(t, "cln_160", [f EXCEPT !.pos = @ + 1])
                     /\ UNCHANGED completed
                ELSE Raise(t, "KeyError") /\ UNCHANGED conversations
    /\ UNCHANGED <<now, calls, ret, faqs, faq_file, turn>>

Cln163(t) == ReturnStep(t, "cln_163", Len(local[t].to_remove))

NextConc ==
    \/ TickConc
    \/ \E t \in Threads :
          \/ CreateCall(t)
          \/ AddCall(t) \/ Add29(t) \/ Add32(t) \/ Add40(t)
          \/ Add41Now(t) \/ Add41Store(t) \/ Add43(t)
          \/ UpdateCall(t) \/ Upd64(t) \/ Upd65Now(t) \/ Upd65Store(t) \/ Upd66(t)
          \/ SetUserInfoCall(t) \/ Set73(t) \/ Set74(t)
          \/ EscalateCall(t) \/ Esc81(t) \/ Esc82(t) \/ Esc83(t) \/ Esc86(t) \/ Esc93(t)
          \/ ResolveCall(t) \/ Res100(t) \/ Res101(t) \/ Res104(t) \/ Res106(t)
          \/ CleanupCall(t) \/ Cln156(t) \/ Cln160(t) \/ Cln163(t)

SpecConc == InitConc /\ [][NextConc]_vars

(***************************************************************************)
(* The listings among concurrent sessions.  Both walk a dict iterator over *)
(* self.conversations.values(): pos is the last id it yielded, size0 the   *)
(* size of the dict when the loop began, and next() raises RuntimeError    *)
(* once the size differs.  The conversation the iterator yields is tested  *)
(* in the same step; get_conversation_summary is then called with its id   *)
(* and looks the id up again: line 110 returns None when the id is gone,   *)
(* line 113 raises KeyError when it goes between the two.                   *)
(***************************************************************************)
\* get_active_conversations, lines 167-170.
ActiveCall(t) ==
    /\ CanCall(t)
    /\ calls' = calls + 1
    /\ Goto(t, "act_170",
            [Frame("get_active_conversations", UnknownId, None) EXCEPT
                !.t_read = now, !.size0 = Cardinality(DOMAIN conversations)])
    /\ UNCHANGED <<conversations, now, ret, completed, faqs, faq_file, turn>>

\* Lines 170-172: the next conversation and the test on it.
Act170(t) ==
    /\ pc[t] = "act_170"
    /\ LET f == local[t]
           conv_id == NextId(conversations, f.pos)
       IN  IF Cardinality(DOMAIN conversations) # f.size0
           THEN Raise(t, "RuntimeError")
           ELSE /\ UNCHANGED completed
                /\ IF {id \in DOMAIN conversations : id > f.pos} = {}
                   THEN Goto(t, "act_175", f)
                   ELSE Goto(t, IF Active(conversations[conv_id], f.t_read)
                                THEN "sum_110" ELSE "act_170",
                            [f EXCEPT !.pos = conv_id, !.conv_id = conv_id])
    /\ UNCHANGED <<conversations, now, calls, ret, faqs, faq_file, turn>>

Act175(t) == ReturnStep(t, "act_175", local[t].results)

\* search_conversations, lines 201-204.
SearchCall(t) ==
    /\ CanCall(t)
    /\ calls' = calls + 1
    /\ \E limit \in SearchLimitInputs :
          /\ limit > 0
          /\ Goto(t, "srch_204",
                  [Frame("search_conversations", UnknownId,
                         [limit |-> limit, query |-> "ORDER"]) EXCEPT
                      !.size0 = Cardinality(DOMAIN conversations)])
    /\ UNCHANGED <<conversations, now, ret, completed, faqs, faq_file, turn>>

\* Lines 204-212: the next conversation and the search of its messages.
Srch204(t) ==
    /\ pc[t] = "srch_204"
    /\ LET f == local[t]
           conv_id == NextId(conversations, f.pos)
       IN  IF Cardinality(DOMAIN conversations) # f.size0
           THEN Raise(t, "RuntimeError")
           ELSE /\ UNCHANGED completed
                /\ IF {id \in DOMAIN conversations : id > f.pos} = {}
                   THEN Goto(t, "srch_217", f)
                   ELSE Goto(t, IF Found(conversations[conv_id], Lower(f.arg.query))
                                THEN "sum_110" ELSE "srch_204",
                            [f EXCEPT !.pos = conv_id, !.conv_id = conv_id])
    /\ UNCHANGED <<conversations, now, calls, ret, faqs, faq_file, turn>>

Srch217(t) == ReturnStep(t, "srch_217", local[t].results)

\* Where a listing goes on once the summary is appended: the active listing
\* to its next conversation, the search to the test of line 214.
AfterAppend(f) ==
    IF f.op = "get_active_conversations" THEN "act_170"
    ELSE IF Len(f.results) >= f.arg.limit THEN "srch_217" ELSE "srch_204"

\* Line 110 of the summary a listing asks for (lines 173, 213): None is
\* returned for an id that is gone, and appended.
Sum110(t) ==
    /\ pc[t] = "sum_110"
    /\ LET f == local[t]
           appended == [f EXCEPT !.results = Append(@, None)]
       IN  IF f.conv_id \in DOMAIN conversations
           THEN Goto(t, "sum_113", f)
           ELSE Goto(t, AfterAppend(appended), appended)
    /\ UNCHANGED <<conversations, now, calls, ret, completed, faqs, faq_file, turn>>

\* Lines 113-149 of that summary, and the append of lines 173, 213.
Sum113(t) ==
    /\ pc[t] = "sum_113"
    /\ LET f == local[t]
           summary == get_conversation_summary(conversations, f.conv_id)
           appended == [f EXCEPT !.results = Append(@, summary.val)]
       IN  IF f.conv_id \notin DOMAIN conversations
           THEN Raise(t, "KeyError")
           ELSE IF summary.raised # "none"
                THEN Raise(t, summary.raised)
                ELSE Goto(t, AfterAppend(appended), appended) /\ UNCHANGED completed
    /\ UNCHANGED <<conversations, now, calls, ret, faqs, faq_file, turn>>

NextSnap ==
    \/ TickConc
    \/ \E t \in Threads :
          \/ CreateCall(t)
          \/ AddCall(t) \/ Add32(t) \/ Add40(t)
          \/ Add41Now(t) \/ Add41Store(t) \/ Add43(t)
          \/ CleanupCall(t) \/ Cln156(t) \/ Cln160(t) \/ Cln163(t)
          \/ ActiveCall(t) \/ Act170(t) \/ Act175(t)
          \/ SearchCall(t) \/ Srch204(t) \/ Srch217(t)
          \/ Sum110(t) \/ Sum113(t)

SpecSnap == InitConc /\ [][NextSnap]_vars

(***************************************************************************)
(* EntityExtractor (entity_extractor.py).  An entity is a record of its    *)
(* type, value, confidence (in hundredths) and source.  The extractor      *)
(* keeps no state between calls: ret records each call and its outcome.    *)
(***************************************************************************)
\* Length of the entity lists explored.
MaxEntities == 2

Entity(type, value, confidence, source) ==
    [value |-> value, type |-> type, confidence |-> confidence, source |-> source]

\* What the patterns of lines 10-17 hand to line 51: the matched text as a
\* str, confidence 0.9, source regex.
RegexEntityInputs ==
    { Entity("order_number", Str("ABC123"), 90, "regex"),
      Entity("order_number", Str("abc123"), 90, "regex"),
      Entity("email", Str("ann@shop.io"), 90, "regex") }

\* Line 126: the f-string key.
EntityKey(entity) == entity.type \o "_" \o Lower(entity.value.text)

\* The position of key in the dict of unique entities, 0 when absent.
KeyIndex(unique, key) ==
    IF \E i \in DOMAIN unique : unique[i].key = key
    THEN CHOOSE i \in DOMAIN unique : unique[i].key = key
    ELSE 0

\* Lines 125-129 from entity i on.  unique is the dict in insertion order;
\* an assignment to a key it holds keeps the key's place.  A value that is
\* not a str has no lower().
RECURSIVE DeduplicateLoop(_, _, _)
DeduplicateLoop(entities, i, unique) ==
    IF i > Len(entities)
    THEN [val |-> [k \in DOMAIN unique |-> unique[k].entity], raised |-> "none"]
    ELSE IF entities[i].value.kind # "str"
         THEN [val |-> <<>>, raised |-> "AttributeError"]
         ELSE LET entity == entities[i]
                  key == EntityKey(entity)
                  at == KeyIndex(unique, key)
              IN  IF at = 0
                  THEN DeduplicateLoop(entities, i + 1,
                           Append(unique, [key |-> key, entity |-> entity]))
                  ELSE IF entity.confidence > unique[at].entity.confidence
                       THEN DeduplicateLoop(entities, i + 1,
                                [unique EXCEPT ![at].entity = entity])
                       ELSE DeduplicateLoop(entities, i + 1, unique)

deduplicate_entities(entities) == DeduplicateLoop(entities, 1, <<>>)

\* The entity lists of at most n entities drawn from S.
ListsOf(S, n) == UNION { [1..k -> S] : k \in 0..n }

\* An entity of the model's JSON answer: each field is the value the answer
\* gives it, or Missing.
RawEntity(type, value, confidence) ==
    [value |-> value, type |-> type, confidence |-> confidence]

RawEntityInputs ==
    { RawEntity(Str("order_number"), Str("ABC123"), IntV(60)),
      RawEntity(Str("order"), Str("number_abc123"), IntV(150)),
      RawEntity(Str("amount"), IntV(42), Missing),
      RawEntity(Str("name"), Str("Ann"), Str("high")),
      RawEntity(Missing, Str("Ann"), IntV(95)) }

\* How the call of lines 92-106 and the parse of line 108 can end.
RaisesOutcome == [kind |-> "raises", entities |-> <<>>]

MalformedOutcome == [kind |-> "malformed", entities |-> <<>>]

JsonOutcome(entities) == [kind |-> "json", entities |-> entities]

AIOutcomes ==
    {RaisesOutcome, MalformedOutcome}
        \cup { JsonOutcome(entities) : entities \in ListsOf(RawEntityInputs, MaxEntities) }

\* Line 115: min(1.0, max(0.0, confidence)), in hundredths.
Clamp(confidence) ==
    IF confidence < 0 THEN 0 ELSE IF confidence > 100 THEN 100 ELSE confidence

\* Lines 111-117 from entity i on: a missing type or value is a KeyError, a
\* missing confidence is 0.8, a confidence that is a str is a TypeError.
RECURSIVE AIEntitiesLoop(_, _, _)
AIEntitiesLoop(raw, i, ai_entities) ==
    IF i > Len(raw) THEN [val |-> ai_entities, raised |-> "none"]
    ELSE LET entity == raw[i]
         IN  IF entity.type = Missing \/ entity.value = Missing
             THEN [val |-> <<>>, raised |-> "KeyError"]
             ELSE IF entity.confidence # Missing /\ entity.confidence.kind # "int"
                  THEN [val |-> <<>>, raised |-> "TypeError"]
                  ELSE AIEntitiesLoop(raw, i + 1,
                           Append(ai_entities,
                               Entity(entity.type.text, entity.value,
                                      IF entity.confidence = Missing THEN 80
                                      ELSE Clamp(entity.confidence.v),
                                      "ai")))

extract_with_ai(outcome) ==
    CASE outcome.kind = "raises" -> [val |-> <<>>, raised |-> "APIError"]
      [] outcome.kind = "malformed" -> [val |-> <<>>, raised |-> "JSONDecodeError"]
      [] OTHER -> AIEntitiesLoop(outcome.entities, 1, <<>>)

\* Lines 23-37: the pattern entities, then the model's unless that stage
\* raises, then the deduplication, outside the try block.
extract_entities(regex_entities, outcome) ==
    LET ai == extract_with_ai(outcome)
        entities == IF ai.raised = "none" THEN regex_entities \o ai.val
                    ELSE regex_entities
    IN  deduplicate_entities(entities)

\* The entities _deduplicate_entities is handed.
EntityInputs ==
    RegexEntityInputs
        \cup { Entity("order_number", Str("ABC123"), 60, "ai"),
               Entity("order", Str("number_abc123"), 100, "ai"),
               Entity("amount", IntV(42), 80, "ai") }

Call(op, arg, r) ==
    /\ ret' = [val |-> r.val, raised |-> r.raised, id |-> UnknownId, op |-> op, arg |-> arg]
    /\ UNCHANGED <<conversations, now, calls, pc, local, completed, faqs, faq_file, turn>>

DeduplicateEntities ==
    \E entities \in ListsOf(EntityInputs, MaxEntities) :
        Call("_deduplicate_entities", entities, deduplicate_entities(entities))

ExtractEntities ==
    \E regex_entities \in ListsOf(RegexEntityInputs, MaxEntities), outcome \in AIOutcomes :
        Call("extract_entities",
             [outcome |-> outcome, regex_entities |-> regex_entities],
             extract_entities(regex_entities, outcome))

NextEntities ==
    \/ DeduplicateEntities
    \/ ExtractEntities

SpecEntities == Init /\ [][NextEntities]_vars

(***************************************************************************)
(* FAQHandler (faq_handler.py).  faqs is the in-memory catalog, in dict    *)
(* order; faq_file is what data/faqs.json holds.  Scores are kept as exact *)
(* fractions num/den.                                                      *)
(***************************************************************************)
\* Number of catalog mutations explored.
MaxFaqCalls == 2

Fraction(num, den) == [num |-> num, den |-> den]

\* Line 8: 0.6.
similarity_threshold == Fraction(6, 10)

Greater(x, y) == x.num * y.den > y.num * x.den

GreaterEqual(x, y) == x.num * y.den >= y.num * x.den

\* The length of the longest common run of a from i and b from j (0-based)
\* that stays below ahi and bhi.
RECURSIVE CommonRun(_, _, _, _, _, _)
CommonRun(a, b, i, j, ahi, bhi) ==
    IF i >= ahi \/ j >= bhi \/ SubSeq(a, i + 1, i + 1) # SubSeq(b, j + 1, j + 1)
    THEN 0
    ELSE 1 + CommonRun(a, b, i + 1, j + 1, ahi, bhi)

\* SequenceMatcher.find_longest_match without junk: the longest block
\* a[i:i+k] = b[j:j+k] inside a[alo:ahi], b[blo:bhi]; of the longest, the
\* one that starts earliest in a, and of those the earliest in b.
LongestMatch(a, b, alo, ahi, blo, bhi) ==
    LET starts == (alo..(ahi - 1)) \X (blo..(bhi - 1))
        size == [p \in starts |-> CommonRun(a, b, p[1], p[2], ahi, bhi)]
        sizes == {size[p] : p \in starts}
        k == CHOOSE n \in sizes : \A other \in sizes : other <= n
        longest == {p \in starts : size[p] = k}
        best == CHOOSE p \in longest :
                    \A q \in longest :
                        p[1] < q[1] \/ (p[1] = q[1] /\ p[2] <= q[2])
    IN  IF starts = {} \/ k = 0 THEN [k |-> 0, i |-> alo, j |-> blo]
        ELSE [k |-> k, i |-> best[1], j |-> best[2]]

\* SequenceMatcher.get_matching_blocks: the total size of the blocks, the
\* longest first and then the same to its left and to its right.
RECURSIVE Matches(_, _, _, _, _, _)
Matches(a, b, alo, ahi, blo, bhi) ==
    LET m == LongestMatch(a, b, alo, ahi, blo, bhi)
    IN  IF m.k = 0 THEN 0
        ELSE m.k + Matches(a, b, alo, m.i, blo, m.j)
                 + Matches(a, b, m.i + m.k, ahi, m.j + m.k, bhi)

\* SequenceMatcher(None, a, b).ratio(): 2.0 * matches / (len(a) + len(b)),
\* and 1.0 for two empty strings.
Ratio(a, b) ==
    IF Len(a) + Len(b) = 0 THEN Fraction(1, 1)
    ELSE Fraction(2 * Matches(a, b, 0, Len(a), 0, Len(b)), Len(a) + Len(b))

\* str.split(): the words between the blanks, as a set (line 130).
RECURSIVE SplitFrom(_, _, _, _)
SplitFrom(text, i, word, words) ==
    IF i > Len(text)
    THEN (IF word = "" THEN words ELSE words \cup {word})
    ELSE IF SubSeq(text, i, i) = " "
         THEN SplitFrom(text, i + 1, "", IF word = "" THEN words ELSE words \cup {word})
         ELSE SplitFrom(text, i + 1, word \o SubSeq(text, i, i), words)

Words(text) == SplitFrom(text, 1, "", {})

stop_words ==
    { "the", "a", "an", "and", "or", "but", "in", "on", "at", "to", "for", "of",
      "with", "by", "is", "are", "was", "were", "be", "been", "have", "has",
      "had", "do", "does", "did", "will", "would", "could", "should", "may",
      "might", "can", "i", "you", "he", "she", "it", "we", "they", "my", "your",
      "his", "her", "its", "our", "their" }

\* _calculate_keyword_score
calculate_keyword_score(user_message, faq_question) ==
    LET user_words == Words(user_message) \ stop_words
        faq_words == Words(faq_question) \ stop_words
    IN  IF faq_words = {} THEN Fraction(0, 1)
        ELSE Fraction(Cardinality(user_words \cap faq_words), Cardinality(faq_words))

\* Line 117: similarity * 0.7 + keyword_score * 0.3
Combined(similarity, keyword_score) ==
    Fraction(7 * similarity.num * keyword_score.den + 3 * keyword_score.num * similarity.den,
             10 * similarity.den * keyword_score.den)

\* Lines 111-117 for one paraphrase.
CombinedScore(user_message_lower, question) ==
    Combined(Ratio(user_message_lower, Lower(question)),
             calculate_keyword_score(user_message_lower, Lower(question)))

\* A choice that also takes a score equal to the best so far.
BetterOrEqual(combined_score, best_score) ==
    /\ GreaterEqual(combined_score, best_score)
    /\ GreaterEqual(combined_score, similarity_threshold)

\* Line 119.
Better(combined_score, best_score) ==
    /\ Greater(combined_score, best_score)
    /\ GreaterEqual(combined_score, similarity_threshold)

\* Lines 108-121 from paraphrase q of entry e on; best is the index of the
\* entry held in best_match, 0 for None.
RECURSIVE FaqLoop(_, _, _, _, _, _)
FaqLoop(catalog, user_message_lower, e, q, best, best_score) ==
    IF e > Len(catalog) THEN best
    ELSE IF q > Len(catalog[e].questions)
         THEN FaqLoop(catalog, user_message_lower, e + 1, 1, best, best_score)
         ELSE LET combined_score ==
                      CombinedScore(user_message_lower, catalog[e].questions[q])
              IN  IF Better(combined_score, best_score)
                  THEN FaqLoop(catalog, user_message_lower, e, q + 1, e, combined_score)
                  ELSE FaqLoop(catalog, user_message_lower, e, q + 1, best, best_score)

\* get_faq_response: the answer of best_match, or None.
get_faq_response(catalog, user_message) ==
    LET best == FaqLoop(catalog, Lower(user_message), 1, 1, 0, Fraction(0, 1))
    IN  IF best # 0 THEN Str(catalog[best].answer) ELSE None

\* The position of faq_id in the catalog, 0 when it is not a key.
FaqIndex(catalog, faq_id) ==
    IF \E i \in DOMAIN catalog : catalog[i].id = faq_id
    THEN CHOOSE i \in DOMAIN catalog : catalog[i].id = faq_id
    ELSE 0

\* An optional argument that is given.
Some(v) == [kind |-> "some", v |-> v]

\* How the write of lines 185-189 / 202-206 ends: the catalog is written;
\* open() raises and the file stays as it was; or open() has truncated the
\* file when json.dump raises.
WriteOutcomes == {"written", "open_fails", "dump_fails"}

Saved(catalog, file, outcome) ==
    CASE outcome = "written" -> catalog
      [] outcome = "open_fails" -> file
      [] OTHER -> <<>>

\* An add that keeps an entry the catalog already holds under the id.
add_faq_if_new(catalog, faq_id, questions, answer, category) ==
    IF FaqIndex(catalog, faq_id) = 0
    THEN Append(catalog, FaqEntry(faq_id, questions, answer, category))
    ELSE catalog

\* Lines 178-182: self.faqs[faq_id] = {...}; an id the dict holds keeps its place.
add_faq(catalog, faq_id, questions, answer, category) ==
    LET at == FaqIndex(catalog, faq_id)
        entry == FaqEntry(faq_id, questions, answer, category)
    IN  IF at = 0 THEN Append(catalog, entry)
        ELSE [catalog EXCEPT ![at] = entry]

\* Lines 193-199.
update_faq(catalog, faq_id, questions, answer, category) ==
    LET at == FaqIndex(catalog, faq_id)
    IN  IF at = 0 THEN catalog
        ELSE [catalog EXCEPT
                ![at].questions = IF questions # None THEN questions.v ELSE @,
                ![at].answer = IF answer # None THEN answer.v ELSE @,
                ![at].category = IF category # None THEN category.v ELSE @]

FaqIdInputs == {"password_reset", "reset_help"}

AnswerInputs == {"Contact support to reset your password.", ""}

UpdateInputs ==
    [ questions : {None, Some(<<"opening hours", "when are you open">>)},
      answer : {None, Some("We are open every day.")},
      category : {None, Some("hours")} ]

FaqCall(op, arg, val) ==
    /\ ret' = [val |-> val, raised |-> "none", id |-> UnknownId, op |-> op, arg |-> arg]
    /\ UNCHANGED <<conversations, now, pc, local, completed, turn>>

AddFaq ==
    /\ calls < MaxFaqCalls
    /\ calls' = calls + 1
    /\ \E faq_id \in FaqIdInputs, answer \in AnswerInputs, outcome \in WriteOutcomes :
          LET questions == <<"reset password">>
              catalog == add_faq(faqs, faq_id, questions, answer, "general")
          IN  /\ faqs' = catalog
              /\ faq_file' = Saved(catalog, faq_file, outcome)
              /\ FaqCall("add_faq",
                         [questions |-> questions, answer |-> answer, category |-> "general",
                          outcome |-> outcome, faq_id |-> faq_id],
                         None)

UpdateFaq ==
    /\ calls < MaxFaqCalls
    /\ calls' = calls + 1
    /\ \E faq_id \in {"business_hours", "unknown_faq"}, u \in UpdateInputs,
          outcome \in WriteOutcomes :
          LET catalog == update_faq(faqs, faq_id, u.questions, u.answer, u.category)
          IN  /\ faqs' = catalog
              /\ faq_file' = IF FaqIndex(faqs, faq_id) = 0 THEN faq_file
                             ELSE Saved(catalog, faq_file, outcome)
              /\ FaqCall("update_faq",
                         [questions |-> u.questions, answer |-> u.answer,
                          category |-> u.category, outcome |-> outcome,
                          faq_id |-> faq_id],
                         None)

NextFaq ==
    \/ AddFaq
    \/ UpdateFaq

SpecFaq == Init /\ [][NextFaq]_vars

(***************************************************************************)
(* The matcher on the catalogs one mutation away from the loaded one.      *)
(***************************************************************************)
MessageTexts ==
    {"Reset Password", "forgot my password", "when are you open",
     "opening hours", "hours", "purple elephant"}

Catalogs ==
    {LoadedFaqs}
        \cup { add_faq(LoadedFaqs, faq_id, <<"reset password">>, answer, "general") :
                 faq_id \in FaqIdInputs, answer \in AnswerInputs }
        \cup { add_faq(LoadedFaqs, "opening", questions, "We open at 9:00 AM.", "general") :
                 questions \in {<<"opening hours">>, <<"opening hours", "when are you open">>,
                                <<"the hours">>, <<>>} }
        \cup { update_faq(LoadedFaqs, "business_hours", u.questions, u.answer, u.category) :
                 u \in UpdateInputs }

InitMatch ==
    /\ conversations = [id \in {} |-> None]
    /\ now = 0
    /\ calls = 0
    /\ ret = NoCall
    /\ pc = NoThreads
    /\ local = NoThreads
    /\ completed = <<>>
    /\ faqs \in Catalogs
    /\ faq_file = faqs
    /\ turn = NoTurn

GetFaqResponse ==
    /\ \E user_message \in MessageTexts :
          FaqCall("get_faq_response", [user_message |-> user_message],
                  get_faq_response(faqs, user_message))
    /\ UNCHANGED <<calls, faqs, faq_file>>

NextMatch == GetFaqResponse

SpecMatch == InitMatch /\ [][NextMatch]_vars

(***************************************************************************)
(* CustomerSupportChatbot.get_response (chatbot.py), one statement of the  *)
(* try block at a time.  turn holds the frame of the call: the line it is  *)
(* at, its arguments and locals, how each external stage ended, the stages *)
(* run so far in order, and the record it returned.                        *)
(***************************************************************************)
\* Length of the longest conversation history explored.
MaxHistory == 7

\* IntentClassifier.intents: the ids of the default catalog.
loaded_intents ==
    {"billing", "technical_support", "product_info", "order_tracking",
     "account_management", "general_inquiry", "complaint"}

\* The answer of the classification model: each field is the value the JSON
\* gives it, or Missing.
IntentOutcomes ==
    { [kind |-> "raises", confidence |-> Missing, intent |-> Missing],
      [kind |-> "json", confidence |-> IntV(95), intent |-> Str("billing")],
      [kind |-> "json", confidence |-> IntV(95), intent |-> Str("small_talk")],
      [kind |-> "json", confidence |-> Str("high"), intent |-> Str("billing")] }

\* Lines 109-115 of intent_classifier.py.
IntentFallback == [confidence |-> 50, intent |-> "general_inquiry", failed |-> TRUE]

\* classify_intent, lines 97-115: any exception inside ends in the fallback.
classify_intent(outcome) ==
    IF outcome.kind # "json" \/ outcome.intent = Missing
    THEN IntentFallback
    ELSE LET known == outcome.intent.text \in loaded_intents
             confidence == IF known THEN outcome.confidence ELSE IntV(50)
         IN  IF confidence = Missing \/ confidence.kind # "int"
             THEN IntentFallback
             ELSE [confidence |-> Clamp(confidence.v),
                   intent |-> IF known THEN outcome.intent.text ELSE "general_inquiry",
                   failed |-> FALSE]

\* Lines 83-89.
ErrorResult ==
    [ confidence |-> 0, source |-> "Error", entities |-> <<>>, intent |-> "error",
      response |-> Str("I apologize, but I'm experiencing technical difficulties. Please try again in a moment, or feel free to contact our human support team for immediate assistance.") ]

\* Lines 61-67 and 74-80.
TurnResult(response, t, source) ==
    [ confidence |-> t.confidence, source |-> source, entities |-> t.entities,
      intent |-> t.intent, response |-> response ]

\* A history of n messages, user and assistant in turn, numbered as sent.
History(n) ==
    [i \in 1..n |-> [role |-> IF i % 2 = 1 THEN "user" ELSE "assistant", content |-> i]]

HistoryInputs == {None} \cup { [kind |-> "list", items |-> History(n)] : n \in {0, 2, MaxHistory} }

\* A window of the whole history.
WholeHistory(conversation_history) ==
    IF conversation_history = None THEN <<>> ELSE conversation_history.items

\* Lines 99-104: the last 6 messages of a history that is not empty.
ContextWindow(conversation_history) ==
    IF conversation_history = None \/ conversation_history.items = <<>>
    THEN <<>>
    ELSE SliceFrom(conversation_history.items, -6)

\* Lines 96-119: the system prompt, the window, the message with its intent
\* and entities.
ContextMessages(t) ==
    <<[role |-> "system", content |-> "system_prompt"]>>
        \o ContextWindow(t.conversation_history)
        \o <<[role |-> "user",
              content |-> [entities |-> t.entities, user_message |-> t.user_message,
                           intent |-> t.intent]]>>

NewTurn(user_message, conversation_history) ==
    [ pc |-> "resp_51", raised |-> "none", confidence |-> 0,
      entities |-> <<>>, regex_entities |-> <<>>, user_message |-> user_message,
      intent |-> "", conversation_history |-> conversation_history,
      entity_stage |-> "none", intent_stage |-> "none", generate_stage |-> "none",
      faq_response |-> None, context_messages |-> <<>>, stages |-> <<>>, result |-> None ]

TurnMessages == {"Reset Password", "purple elephant"}

\* The catalog as loaded, and with an entry whose answer is empty.
TurnCatalogs ==
    { LoadedFaqs,
      add_faq(LoadedFaqs, "password_reset", <<"reset password">>, "", "account") }

InitTurn ==
    /\ conversations = [id \in {} |-> None]
    /\ now = 0
    /\ calls = 0
    /\ ret = NoCall
    /\ pc = NoThreads
    /\ local = NoThreads
    /\ completed = <<>>
    /\ faqs \in TurnCatalogs
    /\ faq_file = faqs
    /\ turn = NoTurn

TurnGoto(t) ==
    /\ turn' = t
    /\ UNCHANGED <<conversations, now, calls, ret, pc, local, completed, faqs, faq_file>>

\* Lines 82-89: except Exception returns the error record.
Except(t, stage, exc) ==
    [t EXCEPT !.pc = "returned", !.stages = Append(@, stage), !.result = ErrorResult]

GetResponse ==
    /\ turn.pc \in {"idle", "returned"}
    /\ \E user_message \in TurnMessages, conversation_history \in HistoryInputs :
          TurnGoto(NewTurn(user_message, conversation_history))

\* Line 51: the entity extraction.
Resp51 ==
    /\ turn.pc = "resp_51"
    /\ \E regex_entities \in ListsOf({Entity("email", Str("ann@shop.io"), 90, "regex")}, 1),
          outcome \in { RaisesOutcome,
                        JsonOutcome(<<RawEntity(Str("name"), Str("Ann"), IntV(95))>>),
                        JsonOutcome(<<RawEntity(Str("amount"), IntV(42), Missing)>>) } :
          LET r == extract_entities(regex_entities, outcome)
              stage == IF extract_with_ai(outcome).raised # "none" THEN "failed" ELSE "ok"
              t == [turn EXCEPT !.entity_stage = stage, !.regex_entities = regex_entities]
          IN  IF r.raised # "none"
              THEN TurnGoto(Except(t, "extract_entities", r.raised))
              ELSE TurnGoto([t EXCEPT !.pc = "resp_54", !.entities = r.val,
                                      !.stages = Append(@, "extract_entities")])

\* Lines 54-56: the intent classification.
Resp54 ==
    /\ turn.pc = "resp_54"
    /\ \E outcome \in IntentOutcomes :
          LET intent_result == classify_intent(outcome)
          IN  TurnGoto([turn EXCEPT
                          !.pc = "resp_59",
                          !.intent_stage = IF intent_result.failed THEN "failed" ELSE "ok",
                          !.intent = intent_result.intent,
                          !.confidence = intent_result.confidence,
                          !.stages = Append(@, "classify_intent")])

\* Lines 59-67: the FAQ lookup, and the return of an answer that is truthy.
Resp59 ==
    /\ turn.pc = "resp_59"
    /\ LET faq_response == get_faq_response(faqs, turn.user_message)
           t == [turn EXCEPT !.faq_response = faq_response,
                             !.stages = Append(@, "get_faq_response")]
       IN  IF Truthy(faq_response)
           THEN TurnGoto([t EXCEPT !.pc = "returned",
                                   !.result = TurnResult(faq_response, t, "FAQ")])
           ELSE TurnGoto([t EXCEPT !.pc = "resp_70"])

\* Lines 70-80: the generative reply.
Resp70 ==
    /\ turn.pc = "resp_70"
    /\ LET t == [turn EXCEPT !.context_messages = ContextMessages(turn)]
       IN  \/ TurnGoto(Except([t EXCEPT !.generate_stage = "failed"],
                              "generate_gpt_response", "APIError"))
           \/ TurnGoto([t EXCEPT
                          !.pc = "returned",
                          !.generate_stage = "ok",
                          !.stages = Append(@, "generate_gpt_response"),
                          !.result = TurnResult(Str("Happy to help with that."), t, "AI")])

NextTurn ==
    \/ GetResponse
    \/ Resp51
    \/ Resp54
    \/ Resp59
    \/ Resp70

SpecTurn == InitTurn /\ [][NextTurn]_vars

(***************************************************************************)
(* Properties of the sequential store.                                     *)
(***************************************************************************)
\* A step of Spec that is a call: ret' then describes that call.
IsCall == calls' = calls + 1

Called(op) == IsCall /\ ret'.op = op

Mutators ==
    {"add_message", "update_context", "set_user_info",
     "escalate_conversation", "resolve_conversation"}

\* The value each handler documents for an id that is not stored.
NotFoundValue(op) ==
    IF op \in Mutators THEN FALSE
    ELSE IF op = "get_messages" THEN <<>>
    ELSE None

IsPrefix(s, t) == Len(s) <= Len(t) /\ SubSeq(t, 1, Len(s)) = s

\* The conversations other than id are stored as before.
OthersUnchanged(id) ==
    /\ DOMAIN conversations' = DOMAIN conversations
    /\ \A other \in DOMAIN conversations \ {id} :
          conversations'[other] = conversations[other]

\* C1: a call on an id that is not stored returns False (the mutators), an
\* empty sequence (get_messages) or None (summary, export), raises nothing
\* and leaves the store as it was.
C1_UnknownIdStep ==
    (IsCall /\ ret'.op \in Mutators \cup {"get_messages", "get_conversation_summary",
                                          "export_conversation"}
            /\ ret'.id \notin DOMAIN conversations)
    => /\ ret'.raised = "none"
       /\ ret'.val = NotFoundValue(ret'.op)
       /\ conversations' = conversations

C1_UnknownIdFalsy == [][C1_UnknownIdStep]_vars

C1_Witness ==
    /\ ret.op = "resolve_conversation"
    /\ ret.id \notin DOMAIN conversations
    /\ ret.val = FALSE
    /\ conversations # <<>>

\* C4: the sweep removes exactly the conversations idle for more than
\* max_conversation_age, returns how many it removed and leaves the others
\* as they were; one touched a second before the sweep stays.
C4_CleanupStep ==
    Called("cleanup_old_conversations")
    => /\ ret'.raised = "none"
       /\ \A id \in DOMAIN conversations :
             id \notin DOMAIN conversations'
                <=> now - conversations[id].last_activity.sec > 24 * 3600
       /\ DOMAIN conversations' \subseteq DOMAIN conversations
       /\ \A id \in DOMAIN conversations' : conversations'[id] = conversations[id]
       /\ ret'.val = Cardinality(DOMAIN conversations \ DOMAIN conversations')
       /\ \A id \in DOMAIN conversations :
             now - conversations[id].last_activity.sec = 1 => id \in DOMAIN conversations'

C4_CleanupExact == [][C4_CleanupStep]_vars

C4_Witness ==
    /\ ret.op = "cleanup_old_conversations"
    /\ ret.val = 1
    /\ \E id \in DOMAIN conversations :
          /\ conversations[id].messages # <<>>
          /\ now - conversations[id].last_activity.sec = 1

\* C5: after every successful mutation of a conversation its last_activity
\* is the time of that call.
C5_MutationStep ==
    (IsCall /\ ret'.op \in Mutators /\ ret'.raised = "none" /\ ret'.val = TRUE)
    => conversations'[ret'.id].last_activity = DateTime(now)

C5_LastActivityOnEveryMutation == [][C5_MutationStep]_vars

\* C6: the transcript only grows and a stored message never changes: the
\* messages before a step are a prefix of the messages after it.
C6_TranscriptStep ==
    \A id \in DOMAIN conversations \cap DOMAIN conversations' :
        IsPrefix(conversations[id].messages, conversations'[id].messages)

C6_AppendOnlyImmutable == [][C6_TranscriptStep]_vars

\* The last k messages, in append order.
LastMessages(messages, k) ==
    SubSeq(messages, Len(messages) - k + 1, Len(messages))

Min(a, b) == IF a < b THEN a ELSE b

\* C7: get_messages on a stored id returns the last min(limit, n) messages
\* for a limit (taken over the limits >= 0), and all n messages without one.
C7_LastLimitMessages ==
    (ret.op = "get_messages" /\ ret.id \in DOMAIN conversations)
    => LET messages == conversations[ret.id].messages
       IN  IF ret.arg = None THEN ret.val = messages
           ELSE ret.arg.v >= 0
                => ret.val = LastMessages(messages, Min(ret.arg.v, Len(messages)))

\* A rendered timestamp: a string that parses back to the instant stored.
RendersInstant(text, stored) ==
    /\ text.kind = "str"
    /\ stored.kind = "datetime"
    /\ FromIsoFormat(text.text) = stored.sec

RendersOptional(text, stored) ==
    IF stored = Missing THEN text = Missing ELSE RendersInstant(text, stored)

\* No export has yet rendered a message of this conversation: every stored
\* timestamp is the datetime add_message set.
FreshTranscript(conv) ==
    \A i \in DOMAIN conv.messages : conv.messages[i].timestamp.kind = "datetime"

\* C8: an export of a conversation built by create_conversation and k
\* add_message calls returns a record with the k messages in append order,
\* every timestamp rendered as a string that parses back to the stored
\* instant, and the other fields as stored.
C8_ExportStep ==
    (Called("export_conversation") /\ ret'.id \in DOMAIN conversations
        /\ FreshTranscript(conversations[ret'.id]))
    => LET stored == conversations[ret'.id]
           record == ret'.val
       IN  /\ ret'.raised = "none"
           /\ Len(record.messages) = Len(stored.messages)
           /\ \A i \in DOMAIN stored.messages :
                 /\ RendersInstant(record.messages[i].timestamp,
                                   stored.messages[i].timestamp)
                 /\ record.messages[i].id = stored.messages[i].id
                 /\ record.messages[i].role = stored.messages[i].role
                 /\ record.messages[i].content = stored.messages[i].content
                 /\ record.messages[i].metadata = stored.messages[i].metadata
           /\ RendersInstant(record.created_at, stored.created_at)
           /\ RendersInstant(record.last_activity, stored.last_activity)
           /\ RendersOptional(record.escalation_time, stored.escalation_time)
           /\ RendersOptional(record.resolved_at, stored.resolved_at)
           /\ record.id = stored.id
           /\ record.context = stored.context
           /\ record.user_info = stored.user_info
           /\ record.escalated = stored.escalated
           /\ record.resolved = stored.resolved
           /\ record.satisfaction_score = stored.satisfaction_score
           /\ record.escalation_reason = stored.escalation_reason

C8_ExportRoundTrip == [][C8_ExportStep]_vars

C8_Witness ==
    /\ ret.op = "export_conversation"
    /\ ret.raised = "none"
    /\ ret.id \in DOMAIN conversations
    /\ Len(ret.val.messages) = 2
    /\ \A i \in 1..2 : ret.val.messages[i].role # "system"
    /\ ret.val.messages[2].timestamp = Str(IsoFormat(86401))

\* A repeated escalation: the conversation was escalated before the call.
ReEscalation ==
    /\ Called("escalate_conversation")
    /\ ret'.id \in DOMAIN conversations
    /\ conversations[ret'.id].escalated

\* The fields of a conversation that an escalation is not about.
SideState(conv) ==
    <<conv.id, conv.created_at, conv.context, conv.user_info, conv.resolved,
      conv.resolved_at, conv.satisfaction_score>>

\* C9 as stated: a repeated escalation keeps the flag, overwrites reason
\* and time, and leaves the transcript and the rest as they were.
C9_ReEscalationStepAsStated ==
    ReEscalation
    => LET before == conversations[ret'.id]
           after == conversations'[ret'.id]
       IN  /\ after.escalated
           /\ after.escalation_reason = ret'.arg
           /\ after.escalation_time = DateTime(now)
           /\ after.messages = before.messages
           /\ SideState(after) = SideState(before)

C9_ReEscalationKeepsTranscript == [][C9_ReEscalationStepAsStated]_vars

\* C9 as amended: a repeated escalation keeps the flag, overwrites reason
\* and time, appends one more system message about the escalation and sets
\* last_activity; the messages stored before, the context, the user info
\* and the resolution fields stay, and so do the other conversations.
C9_ReEscalationStep ==
    ReEscalation
    => LET before == conversations[ret'.id]
           after == conversations'[ret'.id]
           added == after.messages[Len(after.messages)]
       IN  /\ ret'.val = TRUE
           /\ after.escalated
           /\ after.escalation_reason = ret'.arg
           /\ after.escalation_time = DateTime(now)
           /\ Len(after.messages) = Len(before.messages) + 1
           /\ IsPrefix(before.messages, after.messages)
           /\ added.role = "system"
           /\ added.timestamp = DateTime(now)
           /\ added.metadata["type"] = Str("escalation")
           /\ added.metadata["reason"] = ret'.arg
           /\ after.last_activity = DateTime(now)
           /\ SideState(after) = SideState(before)
           /\ OthersUnchanged(ret'.id)

C9_ReEscalationAppends == [][C9_ReEscalationStep]_vars

C9_Witness ==
    /\ ret.op = "escalate_conversation"
    /\ ret.id \in DOMAIN conversations
    /\ LET conv == conversations[ret.id]
       IN  /\ Len(conv.messages) = 2
           /\ \A i \in 1..2 : conv.messages[i].role = "system"
           /\ conv.messages[1].metadata["reason"] = Str("billing dispute")
           /\ conv.messages[2].metadata["reason"] = None
           /\ conv.escalation_reason = None
           /\ conv.context # <<>>

\* The mapping a merge call is about.
Mapping(op, conv) == IF op = "update_context" THEN conv.context ELSE conv.user_info

\* The fields neither merge call is about, last_activity apart.
MergeFrame(op, conv) ==
    <<conv.id, conv.created_at, conv.messages, conv.satisfaction_score,
      conv.escalated, conv.resolved, conv.escalation_reason, conv.escalation_time,
      conv.resolved_at,
      IF op = "update_context" THEN conv.user_info ELSE conv.context>>

\* C10: update_context and set_user_info on a stored id return True and
\* shallow-merge: the mapping holds u's value for every key of u and its
\* earlier value for every other key; apart from last_activity nothing else
\* of the conversation changes, and no other conversation does.
C10_MergeStep ==
    (IsCall /\ ret'.op \in {"update_context", "set_user_info"}
            /\ ret'.id \in DOMAIN conversations)
    => LET before == conversations[ret'.id]
           after == conversations'[ret'.id]
           u == ret'.arg
           old == Mapping(ret'.op, before)
           new == Mapping(ret'.op, after)
       IN  /\ ret'.raised = "none"
           /\ ret'.val = TRUE
           /\ DOMAIN new = DOMAIN old \cup DOMAIN u
           /\ \A k \in DOMAIN u : new[k] = u[k]
           /\ \A k \in DOMAIN old \ DOMAIN u : new[k] = old[k]
           /\ MergeFrame(ret'.op, after) = MergeFrame(ret'.op, before)
           /\ OthersUnchanged(ret'.id)

C10_ShallowMerge == [][C10_MergeStep]_vars

C10_Witness ==
    /\ ret.op = "set_user_info"
    /\ ret.arg = [k \in {"name"} |-> Str("Ann")]
    /\ ret.id \in DOMAIN conversations
    /\ conversations[ret.id].user_info =
          [k \in {"name", "plan"} |-> IF k = "name" THEN Str("Ann") ELSE Str("pro")]
    /\ DOMAIN conversations # {ret.id}

\* The sum of the counts a per-role count holds.
RECURSIVE SumCounts(_, _)
SumCounts(counts, roles) ==
    IF roles = {} THEN 0
    ELSE LET role == CHOOSE r \in roles : TRUE
         IN  counts[role] + SumCounts(counts, roles \ {role})

\* The position of the first assistant message that carries the intent.
FirstSeen(messages, intent) ==
    CHOOSE i \in DOMAIN messages :
        /\ messages[i].role = "assistant"
        /\ "intent" \in DOMAIN messages[i].metadata
        /\ messages[i].metadata["intent"] = intent
        /\ \A j \in 1..(i - 1) :
              ~(/\ messages[j].role = "assistant"
                /\ "intent" \in DOMAIN messages[j].metadata
                /\ messages[j].metadata["intent"] = intent)

AssistantIntents(messages) ==
    { messages[i].metadata["intent"] :
        i \in { j \in DOMAIN messages :
                  /\ messages[j].role = "assistant"
                  /\ "intent" \in DOMAIN messages[j].metadata } }

\* What the summary of conversation conv has to report.
SummaryOf(summary, conv) ==
    LET messages == conv.messages
        n == Len(messages)
        intents == summary.intents_discussed
    IN  /\ summary.message_count = n
        /\ \A role \in DOMAIN summary.message_counts :
              summary.message_counts[role] =
                  Cardinality({i \in 1..n : messages[i].role = role})
        /\ SumCounts(summary.message_counts, DOMAIN summary.message_counts) = n
        /\ {intents[i] : i \in DOMAIN intents} = AssistantIntents(messages)
        /\ \A i, j \in DOMAIN intents :
              i < j => /\ intents[i] # intents[j]
                       /\ FirstSeen(messages, intents[i]) < FirstSeen(messages, intents[j])
        /\ IF n = 0 THEN summary.duration_seconds = None
           ELSE /\ messages[1].timestamp.kind = "datetime"
                /\ messages[n].timestamp.kind = "datetime"
                /\ summary.duration_seconds =
                      IntV(messages[n].timestamp.sec - messages[1].timestamp.sec)
        /\ summary.escalated = conv.escalated
        /\ summary.resolved = conv.resolved
        /\ summary.satisfaction_score = conv.satisfaction_score
        /\ summary.user_info = conv.user_info

\* C11: get_conversation_summary on a known id returns a summary of the
\* current transcript: per-role counts that sum to message_count, the number
\* of stored messages; the intents of the assistant messages, each once, in
\* the order first seen; duration_seconds = last timestamp minus first (None
\* without messages); and the current escalated, resolved, satisfaction_score
\* and user_info.
C11_SummaryStep ==
    (Called("get_conversation_summary") /\ ret'.id \in DOMAIN conversations)
        => /\ ret'.raised = "none"
           /\ SummaryOf(ret'.val, conversations[ret'.id])

C11_SummaryReports == [][C11_SummaryStep]_vars

(***************************************************************************)
(* Properties of the listings.                                             *)
(***************************************************************************)
\* The conversations a listing has to return at instant t.
ListedAt(t) ==
    { id \in DOMAIN conversations :
        /\ conversations[id].resolved = FALSE
        /\ t - conversations[id].last_activity.sec < max_conversation_age }

\* C12: get_active_conversations returns one summary for each stored
\* conversation that is not resolved and was active less than
\* max_conversation_age ago, and no summary for any other conversation.
C12_ActiveStep ==
    Called("get_active_conversations")
        => /\ ret'.raised = "none"
           /\ LET active == ret'.val
              IN  /\ \A id \in ListedAt(now) :
                        Cardinality({i \in DOMAIN active :
                                       active[i].conversation_id = id}) = 1
                  /\ \A i \in DOMAIN active :
                        /\ active[i].conversation_id \in ListedAt(now)
                        /\ SummaryOf(active[i], conversations[active[i].conversation_id])

C12_ActiveListing == [][C12_ActiveStep]_vars

\* The conversations with a message whose content contains the query,
\* whatever the case of either.
Matching(query) ==
    { id \in DOMAIN conversations :
        \E i \in DOMAIN conversations[id].messages :
            Contains(Lower(query), Lower(conversations[id].messages[i].content)) }

\* C13: search_conversations returns summaries only of conversations with a
\* message that contains the query as a case-insensitive substring, each at
\* most once, in store iteration order, and stops once limit summaries are
\* collected: the result never holds more than limit summaries.
C13_SearchStep ==
    Called("search_conversations")
        => /\ ret'.raised = "none"
           /\ LET results == ret'.val
                  query == ret'.arg.query
                  limit == ret'.arg.limit
              IN  /\ \A i \in DOMAIN results :
                        /\ results[i].conversation_id \in Matching(query)
                        /\ SummaryOf(results[i], conversations[results[i].conversation_id])
                  /\ \A i, j \in DOMAIN results :
                        i < j => results[i].conversation_id < results[j].conversation_id
                  /\ Len(results) <= limit
                  /\ \/ Len(results) = limit
                     \/ {results[i].conversation_id : i \in DOMAIN results} = Matching(query)

C13_SearchBounded == [][C13_SearchStep]_vars

(***************************************************************************)
(* Properties of the store under concurrent sessions.                      *)
(***************************************************************************)
AllReturned == \A t \in DOMAIN pc : pc[t] = Idle

\* The add_message calls on id that returned True, in the order they returned.
ReturnedAdds(id) ==
    SelectSeq(completed,
        LAMBDA e : e.op = "add_message" /\ e.id = id /\ e.raised = "none" /\ e.val)

\* Only add_message calls were made on id since it was created.
OnlyAdds(id) ==
    \A i \in DOMAIN completed :
        completed[i].id = id
            => completed[i].op \in {"create_conversation", "add_message"}

\* C2: once all the concurrent add_message calls on a conversation have
\* returned, its messages are the calls' messages, each once, in the order
\* the calls returned, and last_activity is what the last call to return wrote.
C2_AddsInCompletionOrder ==
    AllReturned
    => \A id \in DOMAIN conversations :
          OnlyAdds(id)
          => LET adds == ReturnedAdds(id)
                 messages == conversations[id].messages
             IN  /\ Len(messages) = Len(adds)
                 /\ \A i \in DOMAIN adds : messages[i].id = adds[i].uuid
                 /\ adds # <<>>
                       => conversations[id].last_activity
                             = DateTime(adds[Len(adds)].wrote)

\* The weaker half of C2 alone: each returned call's message is stored once.
AddsStoredOnce ==
    AllReturned
    => \A id \in DOMAIN conversations :
          OnlyAdds(id)
          => LET adds == ReturnedAdds(id)
                 messages == conversations[id].messages
             IN  /\ Len(messages) = Len(adds)
                 /\ \A i \in DOMAIN adds :
                       Cardinality({j \in DOMAIN messages : messages[j].id = adds[i].uuid}) = 1

\* A mutation that got past its existence check and has not returned yet.
MutationInFlight(t) ==
    pc[t] # Idle /\ local[t].op \in Mutators /\ local[t].passed

\* C3: the sweep never removes a conversation under a mutation in flight:
\* the id of a mutation past its existence check is stored until the call
\* returns, and such a call returns True without raising.
C3_NoEvictionUnderMutation ==
    /\ \A t \in DOMAIN pc : MutationInFlight(t) => local[t].id \in DOMAIN conversations
    /\ \A i \in DOMAIN completed :
          (completed[i].op \in Mutators /\ completed[i].passed)
          => completed[i].raised = "none" /\ completed[i].val

\* The listing calls that have ended, by returning or by raising.
EndedListings ==
    { i \in DOMAIN completed :
        completed[i].op \in {"get_active_conversations", "search_conversations"} }

\* C14: a listing that runs while other sessions create conversations, add
\* messages and sweep completes without raising, and every element it
\* returns is the summary of a conversation, never a None entry.
C14_SnapshotListings ==
    \A i \in EndedListings :
        /\ completed[i].raised = "none"
        /\ \A k \in DOMAIN completed[i].val :
              /\ completed[i].val[k] # None
              /\ completed[i].val[k].conversation_id \in 1..calls

(***************************************************************************)
(* Properties of the entity extractor.                                     *)
(***************************************************************************)
\* The identity of an entity: its type and its lowercased value.
PairOf(entity) == <<entity.type, Lower(entity.value.text)>>

\* The entity to keep for a pair: the first of highest confidence.
KeptFor(entities, pair) ==
    LET with == {i \in DOMAIN entities : PairOf(entities[i]) = pair}
        best == CHOOSE i \in with :
                    \A j \in with :
                        \/ entities[j].confidence < entities[i].confidence
                        \/ (entities[j].confidence = entities[i].confidence /\ i <= j)
    IN  entities[best]

\* C15: the deduplication returns exactly one entity for each distinct pair
\* (type, lowercased value) of its input, merges two entities only when both
\* type and lowercased value are equal, and keeps for a pair the entity of
\* highest confidence, the earlier one on equal confidence.
C15_DedupByTypeAndValue ==
    (/\ ret.op = "_deduplicate_entities"
     /\ \A i \in DOMAIN ret.arg : ret.arg[i].value.kind = "str")
        => /\ ret.raised = "none"
           /\ LET entities == ret.arg
                  unique == ret.val
                  pairs == {PairOf(entities[i]) : i \in DOMAIN entities}
              IN  /\ Len(unique) = Cardinality(pairs)
                  /\ \A pair \in pairs :
                        \E k \in DOMAIN unique : unique[k] = KeptFor(entities, pair)

\* C16: extract_entities returns a list without raising whatever the
\* external stage does (exception, malformed JSON, missing fields, values or
\* confidences of unexpected types), and when that stage errors the result
\* is the deduplicated pattern entities.
C16_ExternalStageNonFatal ==
    ret.op = "extract_entities"
        => /\ ret.raised = "none"
           /\ extract_with_ai(ret.arg.outcome).raised # "none"
                 => ret.val = deduplicate_entities(ret.arg.regex_entities).val

(***************************************************************************)
(* Properties of the FAQ matcher and catalog.                              *)
(***************************************************************************)
\* The paraphrases of the catalog: <<entry, paraphrase>> positions.
Paraphrases(catalog) ==
    UNION { {<<e, q>> : q \in DOMAIN catalog[e].questions} : e \in DOMAIN catalog }

\* C17: get_faq_response scores every paraphrase of every entry with
\* 0.7 x similarity + 0.3 x keyword overlap and returns the answer of the
\* entry with the highest score when that score is at least the threshold,
\* the first such entry in catalog order on a tie, and None otherwise.
C17_BestMatchAtThreshold ==
    ret.op = "get_faq_response"
        => LET message == Lower(ret.arg.user_message)
               all == Paraphrases(faqs)
               score == [p \in all |->
                           Combined(Ratio(message, Lower(faqs[p[1]].questions[p[2]])),
                                    calculate_keyword_score(
                                        message, Lower(faqs[p[1]].questions[p[2]])))]
               top == {p \in all : \A q \in all : GreaterEqual(score[p], score[q])}
               first == CHOOSE p \in top :
                            \A q \in top : p[1] < q[1] \/ (p[1] = q[1] /\ p[2] <= q[2])
           IN  IF all # {} /\ GreaterEqual(score[first], similarity_threshold)
               THEN ret.val = Str(faqs[first[1]].answer)
               ELSE ret.val = None

\* A tie: the message matches a paraphrase of two entries exactly, and the
\* answer of the first is returned.
C17_Witness ==
    /\ ret.op = "get_faq_response"
    /\ ret.arg.user_message = "Reset Password"
    /\ Len(faqs) = 3
    /\ faqs[3].questions = <<"reset password">>
    /\ faqs[3].answer # faqs[1].answer
    /\ ret.val = Str(faqs[1].answer)

\* The entries of the catalog other than the one under faq_id are as before.
OtherEntriesKept(faq_id) ==
    /\ {faqs'[i].id : i \in DOMAIN faqs'} \ {faq_id} = {faqs[i].id : i \in DOMAIN faqs} \ {faq_id}
    /\ \A i \in DOMAIN faqs :
          faqs[i].id # faq_id => faqs'[FaqIndex(faqs', faqs[i].id)] = faqs[i]

\* C18: add_faq makes the entry under the id equal to the given questions,
\* answer and category; update_faq on an id of the catalog overwrites the
\* fields that are given and keeps those passed as None; a failing write is
\* not raised and the in-memory change stays; no other entry changes; and
\* update_faq on an id that is not in the catalog leaves the catalog as it is.
C18_CatalogStep ==
    LET a == ret'.arg
        at == FaqIndex(faqs, a.faq_id)
        after == FaqIndex(faqs', a.faq_id)
    IN  /\ (IsCall /\ ret'.op = "add_faq")
              => /\ ret'.raised = "none"
                 /\ after # 0
                 /\ faqs'[after] = FaqEntry(a.faq_id, a.questions, a.answer, a.category)
                 /\ OtherEntriesKept(a.faq_id)
        /\ (IsCall /\ ret'.op = "update_faq" /\ at # 0)
              => /\ ret'.raised = "none"
                 /\ after = at
                 /\ faqs'[at].questions =
                       IF a.questions = None THEN faqs[at].questions ELSE a.questions.v
                 /\ faqs'[at].answer =
                       IF a.answer = None THEN faqs[at].answer ELSE a.answer.v
                 /\ faqs'[at].category =
                       IF a.category = None THEN faqs[at].category ELSE a.category.v
                 /\ OtherEntriesKept(a.faq_id)
        /\ (IsCall /\ ret'.op = "update_faq" /\ at = 0)
              => /\ ret'.raised = "none"
                 /\ faqs' = faqs

C18_CatalogAuthoritative == [][C18_CatalogStep]_vars

\* An update whose write failed after an add that replaced an entry: the
\* catalog holds the new answer and the category it had, the file does not.
C18_Witness ==
    /\ ret.op = "update_faq"
    /\ ret.arg.outcome = "dump_fails"
    /\ ret.arg.faq_id = "business_hours"
    /\ ret.arg.answer # None
    /\ ret.arg.category = None
    /\ faqs[2].answer = ret.arg.answer.v
    /\ faqs[2].category = "general"
    /\ faqs[1].questions = <<"reset password">>
    /\ faq_file = <<>>

(***************************************************************************)
(* Properties of a turn of the chatbot.                                    *)
(***************************************************************************)
TurnReturned == turn.pc = "returned"

\* The turn ended with an answer from the catalog or from the generative step.
Answered == turn.result # None /\ turn.result.source \in {"FAQ", "AI"}

\* C19: get_response never lets a failure of an external call abort a turn.
\* Every turn returns a result record and raises nothing; a turn whose
\* generative step did not fail is answered, with the pattern entities alone
\* when the entity call failed and with general_inquiry at confidence 0.5
\* when the intent call failed; a turn whose generative step failed returns
\* the fixed apology with source Error.
C19_TurnNeverAborts ==
    TurnReturned =>
        /\ turn.raised = "none"
        /\ turn.result # None
        /\ DOMAIN turn.result = {"response", "intent", "confidence", "entities", "source"}
        /\ turn.generate_stage = "failed" => turn.result = ErrorResult
        /\ turn.generate_stage # "failed" =>
              /\ Answered
              /\ turn.entity_stage = "failed" =>
                    turn.result.entities = deduplicate_entities(turn.regex_entities).val
              /\ turn.intent_stage = "failed" =>
                    /\ turn.result.intent = "general_inquiry"
                    /\ turn.result.confidence = 50

\* The position of a stage among the stages the turn ran, 0 when it did not run.
StageIndex(stage) ==
    LET found == {i \in 1..Len(turn.stages) : turn.stages[i] = stage}
    IN  IF found = {} THEN 0 ELSE CHOOSE i \in found : \A j \in found : i <= j

\* The messages of the context between the system prompt and the new message.
Window == SubSeq(turn.context_messages, 2, Len(turn.context_messages) - 1)

\* C20: in a turn that reached the FAQ lookup, the generative call is made
\* if and only if the matcher found no entry, and after the lookup; a match
\* returns the answer of the entry with source FAQ; a miss answered by the
\* generative step returns its reply with source AI, from a context whose
\* window is the last 6 or fewer messages of the history, in their order.
C20_FaqBeforeGenerative ==
    (TurnReturned /\ StageIndex("get_faq_response") > 0) =>
        LET matched == turn.faq_response # None
            generated == StageIndex("generate_gpt_response") > 0
            history == WholeHistory(turn.conversation_history)
        IN  /\ generated <=> ~matched
            /\ generated => StageIndex("get_faq_response") < StageIndex("generate_gpt_response")
            /\ matched => turn.result = TurnResult(turn.faq_response, turn, "FAQ")
            /\ (~matched /\ turn.generate_stage = "ok") =>
                  /\ turn.result.source = "AI"
                  /\ turn.result.response = Str("Happy to help with that.")
                  /\ Len(Window) <= 6
                  /\ Len(Window) = (IF Len(history) < 6 THEN Len(history) ELSE 6)
                  /\ \A i \in 1..Len(Window) :
                        Window[i] = history[Len(history) - Len(Window) + i]

(***************************************************************************)
(* Properties of the store across operations.                              *)
(***************************************************************************)
\* C21: after store operations that succeeded, the reading operations on a
\* stored conversation raise nothing: its summary, its export, the active
\* listing and a search of the store complete, and a second export right
\* after the first returns the record the first returned.
C21_ReadsNeverRaise ==
    ret.raised = "none" =>
        \A id \in DOMAIN conversations :
            LET first == export_conversation(conversations, id)
                second == export_conversation(first.store, id)
            IN  /\ get_conversation_summary(conversations, id).raised = "none"
                /\ first.raised = "none"
                /\ second.raised = "none"
                /\ second.val = first.val
                /\ get_active_conversations(conversations, now).raised = "none"
                /\ \A query \in QueryInputs :
                      search_conversations(conversations, query, 2).raised = "none"

\* C22: right after the sweep, every conversation it kept that is not
\* resolved is in the active listing taken at the same instant.
C22_SweepStep ==
    Called("cleanup_old_conversations")
        => LET listing == get_active_conversations(conversations', now')
           IN  /\ listing.raised = "none"
               /\ \A id \in DOMAIN conversations' :
                     conversations'[id].resolved = FALSE
                        => \E i \in DOMAIN listing.val :
                              listing.val[i].conversation_id = id

C22_SweepAgreesWithListing == [][C22_SweepStep]_vars

================================================================================
